---- MODULE Spec2Model ----
(***************************************************************************)
(* Model of src/main.py: the Agent class (tool-orchestration loop, place   *)
(* resolver, facts payload builder and facts summarizer).                  *)
(*                                                                         *)
(* Python strings are modelled as sequences of one-character strings.      *)
(* A Python value is a tagged record:                                      *)
(*   [t |-> "none"]                 None                                   *)
(*   [t |-> "str",  s |-> chars]    a str whose text is not valid JSON     *)
(*   [t |-> "json", v |-> value]    a str that is the JSON text of value   *)
(*   [t |-> "dict", d |-> record]   a dict with string keys                *)
(*   [t |-> "list", l |-> seq]      a list                                 *)
(*   [t |-> "int",  n |-> number]   a number                               *)
(***************************************************************************)
EXTENDS Integers, Sequences, FiniteSets, TLC

----------------------------------------------------------------------------
(* Bounds of the model *)

\* longest place name drawn for the resolver
MaxNameLen == 2
\* most tool invocations the LLM stub lists in one response
MaxCalls == 2
\* most tool invocations the LLM stub lists over a whole run
MaxTotalCalls == 5
\* most search results that follow the unfetchable padding of a result list
MaxLive == 2

----------------------------------------------------------------------------
(* Strings *)

Min(a, b) == IF a < b THEN a ELSE b

MaxOf(S) == CHOOSE x \in S : \A y \in S : y <= x

MinOf(S) == CHOOSE x \in S : \A y \in S : x <= y

\* the elements of a sequence
Range(seq) == {seq[i] : i \in 1..Len(seq)}

\* s[:n]
Take(s, n) == SubSeq(s, 1, Min(n, Len(s)))

\* a run of n copies of the character c
Fill(n, c) == [i \in 1..n |-> c]

RECURSIVE Concat(_)
\* "".join(parts)
Concat(parts) ==
    IF parts = <<>> THEN <<>> ELSE Head(parts) \o Concat(Tail(parts))

RECURSIVE Join(_, _)
\* sep.join(parts)
Join(sep, parts) ==
    IF parts = <<>> THEN <<>>
    ELSE IF Len(parts) = 1 THEN parts[1]
    ELSE parts[1] \o sep \o Join(sep, Tail(parts))

LowerMap ==
    [c \in {"A", "B", "C", "A^"} |->
        CASE c = "A" -> "a" [] c = "B" -> "b" [] c = "C" -> "c" [] c = "A^" -> "a^"]

UpperMap ==
    [c \in {"a", "b", "c", "i", "t", "y", "a^"} |->
        CASE c = "a" -> "A" [] c = "b" -> "B" [] c = "c" -> "C" [] c = "i" -> "I"
          [] c = "t" -> "T" [] c = "y" -> "Y" [] c = "a^" -> "A^"]

\* the cased characters of the model's alphabet; "a^" and "A^" stand for an
\* accented a (such as U+00E1 / U+00C1)
IsCased(c) == c \in DOMAIN LowerMap \/ c \in DOMAIN UpperMap \/ c \in {"I", "T", "Y"}

LowerChar(c) ==
    IF c \in DOMAIN LowerMap THEN LowerMap[c]
    ELSE CASE c = "I" -> "i" [] c = "T" -> "t" [] c = "Y" -> "y" [] OTHER -> c

UpperChar(c) == IF c \in DOMAIN UpperMap THEN UpperMap[c] ELSE c

\* str.lower()
Lower(s) == [i \in 1..Len(s) |-> LowerChar(s[i])]

\* str.title(): a cased character is upper-cased when it follows an uncased
\* one (or starts the string) and lower-cased otherwise
Title(s) ==
    [i \in 1..Len(s) |->
        IF ~IsCased(s[i]) THEN s[i]
        ELSE IF i > 1 /\ IsCased(s[i - 1]) THEN LowerChar(s[i])
        ELSE UpperChar(s[i])]

IsSpace(c) == c \in {" ", "\n"}

\* str.strip()
Strip(s) ==
    LET keep == {i \in 1..Len(s) : ~IsSpace(s[i])}
    IN  IF keep = {} THEN <<>> ELSE SubSeq(s, MinOf(keep), MaxOf(keep))

\* unidecode(): the accented letters lose their accent
Unidecode(s) ==
    [i \in 1..Len(s) |->
        CASE s[i] = "a^" -> "a" [] s[i] = "A^" -> "A" [] OTHER -> s[i]]

\* str.replace(' ', '-')
Hyphenate(s) == [i \in 1..Len(s) |-> IF s[i] = " " THEN "-" ELSE s[i]]

\* needle in hay
Contains(hay, needle) ==
    \E i \in 0..(Len(hay) - Len(needle)) :
        SubSeq(hay, i + 1, i + Len(needle)) = needle

RECURSIVE Dedup(_)
\* list(dict.fromkeys(xs)): the first occurrence of each element, in order
Dedup(xs) ==
    IF xs = <<>> THEN <<>>
    ELSE LET init == Dedup(SubSeq(xs, 1, Len(xs) - 1))
             last == xs[Len(xs)]
         IN  IF \E i \in 1..Len(init) : init[i] = last THEN init
             ELSE Append(init, last)

\* content.split('\n\n')[0]
FirstParagraph(s) ==
    LET breaks == {i \in 1..(Len(s) - 1) : s[i] = "\n" /\ s[i + 1] = "\n"}
    IN  IF breaks = {} THEN s ELSE SubSeq(s, 1, MinOf(breaks) - 1)

\* s.rsplit(' ', 1)[0]
RSplitSpace(s) ==
    LET spaces == {i \in 1..Len(s) : s[i] = " "}
    IN  IF spaces = {} THEN s ELSE SubSeq(s, 1, MaxOf(spaces) - 1)

LitNoInfo ==
    <<"N","o"," ","i","n","f","o","r","m","a","t","i","o","n"," ","w","a","s"," ","r","e","t","r","i","e","v","e","d",".">>
LitMultiple ==
    <<"M","u","l","t","i","p","l","e"," ","p","o","s","s","i","b","l","e"," ","m","a","t","c","h","e","s",":"," ">>
LitPleaseSpecify ==
    <<"."," ","P","l","e","a","s","e"," ","s","p","e","c","i","f","y"," ","m","o","r","e"," ","d","e","t","a","i","l","s"," ","(","c","o","u","n","t","r","y","/","r","e","g","i","o","n",")",".">>
LitCouldNotFind ==
    <<"I"," ","c","o","u","l","d"," ","n","o","t"," ","f","i","n","d"," ","a"," ","p","a","g","e"," ","f","o","r"," ","'">>
LitCheckSpelling ==
    <<"'","."," ","P","l","e","a","s","e"," ","c","h","e","c","k"," ","s","p","e","l","l","i","n","g"," ","o","r"," ","a","d","d"," ","c","o","u","n","t","r","y",".">>
LitErrorFetching ==
    <<"E","r","r","o","r"," ","f","e","t","c","h","i","n","g"," ","f","a","c","t","s"," ","(">>
LitTryAgain ==
    <<")","."," ","T","r","y"," ","a","g","a","i","n"," ","l","a","t","e","r",".">>
LitColon ==
    <<":"," ">>
LitSource ==
    <<" ","S","o","u","r","c","e",":"," ">>
LitToolOpen ==
    <<"T","o","o","l"," ","'">>
LitNotAvailable ==
    <<"'"," ","i","s"," ","n","o","t"," ","a","v","a","i","l","a","b","l","e",".">>
LitCommaSpace ==
    <<","," ">>
LitUnknown ==
    <<"U","n","k","n","o","w","n">>
LitNone ==
    <<"N","o","n","e">>
LitCity ==
    <<"c","i","t","y">>
LitCities ==
    <<"c","i","t","i","e","s">>
LitPopulatedPlaces ==
    <<"p","o","p","u","l","a","t","e","d"," ","p","l","a","c","e","s">>
\* the ellipsis character U+2026, one character long
Ellipsis == <<"...">>

----------------------------------------------------------------------------
(* Python values *)

PyNone == [t |-> "none"]
PyStr(chars) == [t |-> "str", s |-> chars]
PyJson(value) == [t |-> "json", v |-> value]
PyDict(rec) == [t |-> "dict", d |-> rec]
PyList(seq) == [t |-> "list", l |-> seq]
PyInt(n) == [t |-> "int", n |-> n]

IsStr(x) == x.t \in {"str", "json"}

\* json.dumps(value)
JsonDumps(value) == PyJson(value)

\* json.loads(text): the decoded value, or a failure for text that is not JSON
JsonLoads(text) ==
    IF text.t = "json" THEN [ok |-> TRUE, value |-> text.v] ELSE [ok |-> FALSE]

\* dict.get(key, default)
DictGet(dict, key, default) ==
    IF key \in DOMAIN dict.d THEN dict.d[key] ELSE default

\* the text an f-string puts for a value
Format(x) ==
    CASE x.t = "str" -> x.s
      [] x.t = "none" -> LitNone
      [] OTHER -> <<x>>

\* bool(x) is False: None, the empty string, the empty list or dict, zero
IsFalsy(x) ==
    \/ x.t = "none"
    \/ x.t = "str" /\ x.s = <<>>
    \/ x.t = "list" /\ x.l = <<>>
    \/ x.t = "dict" /\ DOMAIN x.d = {}
    \/ x.t = "int" /\ x.n = 0

LitDisambiguation ==
    <<"d","i","s","a","m","b","i","g","u","a","t","i","o","n">>
LitNotFound ==
    <<"n","o","t","_","f","o","u","n","d">>
LitGeneral ==
    <<"g","e","n","e","r","a","l">>

----------------------------------------------------------------------------
(* Program constants *)

\* self.__max_iterations
max_iterations == 5
\* len(excerpt) > 500, excerpt[:500]
ExcerptLimit == 500
\* content[:500] of text that is not JSON
OpaqueLimit == 500
\* [:600] of the summary of a found article
SummaryLimit == 600
\* e.options[:10]
PayloadOptions == 10
\* data.get('options', [])[:5]
SummaryOptions == 5
\* results[:10]
SearchCap == 10

----------------------------------------------------------------------------
(* Agent.__integrations_get_location_facts *)

\* the excerpt of an article body: its first paragraph, stripped, cut to
\* 500 characters at the last space and marked with an ellipsis when longer
Excerpt(content) ==
    LET excerpt == Strip(FirstParagraph(content))
    IN  IF Len(excerpt) > ExcerptLimit
        THEN RSplitSpace(Take(excerpt, ExcerptLimit)) \o Ellipsis
        ELSE excerpt

\* except Exception as e: the payload of an unexpected failure
GeneralFailure_NotFound(name, details) ==
    JsonDumps(PyDict([error |-> PyStr(LitNotFound), requested |-> name]))

GeneralFailure(name, details) ==
    JsonDumps(PyDict([error |-> PyStr(LitGeneral), requested |-> name,
                      details |-> PyStr(details)]))

\* The transport string of a facts lookup.  resolved is what
\* __resolve_city_page did: [k |-> "page", page |-> p], [k |-> "none"], or
\* [k |-> "raise", exc |-> e] with e.type the exception class.
GetLocationFacts(name, resolved) ==
    LET outcome ==
            IF resolved.k = "page" /\ resolved.page.content.t = "raise"
            THEN [k |-> "raise", exc |-> resolved.page.content.exc]
            ELSE resolved
    IN  CASE outcome.k = "none" ->
                JsonDumps(PyDict([error |-> PyStr(LitNotFound), requested |-> name]))
          [] outcome.k = "page" ->
                JsonDumps(PyDict([requested |-> name,
                                  resolved_title |-> PyStr(outcome.page.title),
                                  url |-> PyStr(outcome.page.url),
                                  excerpt |-> PyStr(Excerpt(outcome.page.content.s))]))
          [] outcome.k = "raise" /\ outcome.exc.type = "DisambiguationError" ->
                JsonDumps(PyDict([error |-> PyStr(LitDisambiguation), requested |-> name,
                                  options |-> PyList(Take(outcome.exc.options, PayloadOptions))]))
          [] outcome.k = "raise" /\ outcome.exc.type = "PageError" ->
                JsonDumps(PyDict([error |-> PyStr(LitNotFound), requested |-> name]))
          [] OTHER -> GeneralFailure(name, outcome.exc.details)

----------------------------------------------------------------------------
(* Agent.__summarize_location_facts *)

Returned(value) == [raised |-> FALSE, value |-> value]

Raised_Swallowed(type) == [raised |-> FALSE, value |-> PyStr(<<type>>)]

Raised(type) == [raised |-> TRUE, type |-> type]

\* The user-facing sentence for a facts transport string, or the exception
\* the method lets escape.
SummarizeLocationFacts(content) ==
    IF IsFalsy(content) THEN Returned(PyStr(LitNoInfo))
    ELSE
    LET parsed == JsonLoads(content)
    IN  IF ~parsed.ok THEN Returned(PyStr(Take(content.s, OpaqueLimit)))
        ELSE
        LET data == parsed.value
        IN  IF data.t \in {"list", "str", "json"} THEN Raised("AttributeError")
            ELSE IF data.t # "dict" THEN Raised("TypeError")
            ELSE IF "error" \in DOMAIN data.d THEN
                LET err == data.d.error
                IN  IF err = PyStr(LitDisambiguation) THEN
                        LET options == DictGet(data, "options", PyList(<<>>))
                        IN  IF options.t # "list"
                               \/ \E i \in 1..Len(options.l) : options.l[i].t # "str"
                            THEN Raised("TypeError")
                            ELSE LET shown == Take(options.l, SummaryOptions)
                                     opts == Join(LitCommaSpace,
                                                  [i \in 1..Len(shown) |-> shown[i].s])
                                 IN  Returned(PyStr(LitMultiple \o opts \o LitPleaseSpecify))
                    ELSE IF err = PyStr(LitNotFound) THEN
                        Returned(PyStr(LitCouldNotFind
                                       \o Format(DictGet(data, "requested", PyNone))
                                       \o LitCheckSpelling))
                    ELSE Returned(PyStr(LitErrorFetching \o Format(err) \o LitTryAgain))
            ELSE
                LET title == DictGet(data, "resolved_title",
                                     DictGet(data, "requested", PyStr(LitUnknown)))
                    excerpt == DictGet(data, "excerpt", PyStr(<<>>))
                    url == DictGet(data, "url", PyStr(<<>>))
                IN  Returned(PyStr(Take(Format(title) \o LitColon \o Format(excerpt)
                                        \o LitSource \o Format(url), SummaryLimit)))

----------------------------------------------------------------------------
(* State *)

VARIABLES
    \* Agent.run: the transcript, the loop counter, the response's tool calls
    \* and the position of the for loop in them, and where run stands
    messages, iteration, tool_calls, tc_idx, pc,
    \* observation of Agent.run: LLM requests sent, invocation ids handed to
    \* __execute_tool, collaborators called, invocations listed so far, and
    \* how run ended
    llm_requests, executed, collaborator_calls, calls_listed, result,
    \* observation of Agent.run: what __resolve_city_page did in the facts
    \* lookup that was executed
    facts_outcome

runVars ==
    <<messages, iteration, tool_calls, tc_idx, pc,
      llm_requests, executed, collaborator_calls, calls_listed, result,
      facts_outcome>>

VARIABLES
    \* a facts lookup: the requested name, the variants that have an exact
    \* article, the search results, the positions of the two loops of
    \* __resolve_city_page, its best candidate so far, and where it stands
    r_name, has_article, results, cand_idx, res_idx, best_page, best_score, r_pc,
    \* observation of the lookup: full-text searches made, the kinds of error
    \* the direct lookups met, what __resolve_city_page did, the transport
    \* string of the lookup and its summary
    search_calls, direct_errors, r_result, r_payload, r_summary

resolverVars ==
    <<r_name, has_article, results, cand_idx, res_idx, best_page, best_score, r_pc,
      search_calls, direct_errors, r_result, r_payload, r_summary>>

VARIABLES
    \* one application of __integrations_get_location_facts to an article
    \* body, or of __summarize_location_facts to a string: the argument, the
    \* result, and whether the method was applied
    fn_input, fn_output, fn_pc

fnVars == <<fn_input, fn_output, fn_pc>>

vars == <<runVars, resolverVars, fnVars>>

----------------------------------------------------------------------------
(* Agent.__execute_tool *)

ToolNames == {"get_public_ip", "get_location", "get_location_info"}

\* the function name and argument string of an invocation the LLM can list
ToolCallPool ==
    {[name |-> "get_public_ip", arguments |-> PyJson(PyDict(<<>>))],
     [name |-> "get_location",
      arguments |-> PyJson(PyDict([ip_address |-> PyStr(<<"1", ".", "2">>)]))],
     [name |-> "get_location", arguments |-> PyStr(<<"x">>)],
     [name |-> "get_location_info",
      arguments |-> PyJson(PyDict([name |-> PyStr(<<"a">>)]))],
     [name |-> "get_location_info", arguments |-> PyJson(PyDict(<<>>))],
     [name |-> "get_location_info", arguments |-> PyJson(PyList(<<>>))],
     [name |-> "get_weather", arguments |-> PyJson(PyDict(<<>>))]}

\* an article as the encyclopedia service returns it
ShortPage ==
    [title |-> <<"A">>, url |-> <<"u">>,
     content |-> PyStr(<<"A", " ", "c", "i", "t", "y", "\n", "\n", "b">>),
     categories |-> PyList(<<>>)]

\* what __resolve_city_page can do for a name
ResolveOutcomes ==
    {[k |-> "page", page |-> ShortPage],
     [k |-> "none"],
     [k |-> "raise", exc |-> [type |-> "DisambiguationError",
                              options |-> [i \in 1..11 |-> PyStr(<<"o">>)]]],
     [k |-> "raise", exc |-> [type |-> "PageError"]],
     [k |-> "raise", exc |-> [type |-> "Exception", details |-> <<"e">>]]}

\* what the outside world answers to one execution of a tool
External(function) ==
    CASE function.name = "get_public_ip" ->
            {[k |-> "text", text |-> PyStr(<<"1", ".", "2">>)],
             [k |-> "raise", exc |-> [type |-> "ConnectionError"]]}
      [] function.name = "get_location" ->
            {[k |-> "text", text |-> PyJson(PyDict([city |-> PyStr(<<"a">>)]))],
             [k |-> "raise", exc |-> [type |-> "ConnectionError"]]}
      [] function.name = "get_location_info" -> ResolveOutcomes
      [] OTHER -> {[k |-> "none"]}

\* name.strip() in __resolve_city_page fails for a name that is not a str
ResolveFor(name, resolved) ==
    IF IsStr(name) THEN resolved
    ELSE [k |-> "raise", exc |-> [type |-> "AttributeError", details |-> <<"e">>]]

\* the argument bag: the decoded argument string, or the string as it is
\* when it is not JSON
ParsedArguments(function) ==
    LET loaded == JsonLoads(function.arguments)
    IN  IF IsStr(function.arguments) /\ loaded.ok
        THEN loaded.value ELSE function.arguments

\* the else arm: a notice stands in for the result of a tool that is not in
\* the catalog; the tool name is one element of the notice text
UnknownTool_Raises(tool_name) == Raised("KeyError") @@ [called |-> <<>>]

UnknownTool(tool_name) ==
    Returned(PyStr(LitToolOpen \o <<tool_name>> \o LitNotAvailable))
    @@ [called |-> <<>>]

\* The tool's result string, or the exception __execute_tool re-raises;
\* called lists the collaborators it called.
ExecuteTool(function, ext) ==
    LET tool_name == function.name
        arguments == ParsedArguments(function)
    IN  CASE tool_name = "get_public_ip" ->
                IF ext.k = "raise"
                THEN Raised(ext.exc.type) @@ [called |-> <<tool_name>>]
                ELSE Returned(ext.text) @@ [called |-> <<tool_name>>]
          [] tool_name = "get_location" ->
                IF arguments.t # "dict"
                THEN Raised("AttributeError") @@ [called |-> <<>>]
                ELSE IF ext.k = "raise"
                THEN Raised(ext.exc.type) @@ [called |-> <<tool_name>>]
                ELSE Returned(ext.text) @@ [called |-> <<tool_name>>]
          [] tool_name = "get_location_info" ->
                IF arguments.t # "dict"
                THEN Raised("AttributeError") @@ [called |-> <<>>]
                ELSE LET name == DictGet(arguments, "name", PyNone)
                     IN  Returned(GetLocationFacts(name, ResolveFor(name, ext)))
                         @@ [called |-> <<tool_name>>]
          [] OTHER -> UnknownTool(tool_name)

----------------------------------------------------------------------------
(* Agent.run *)

\* the transcript main() hands to run
InitialMessages ==
    <<[role |-> "system", content |-> PyStr(<<"s">>)],
      [role |-> "user", content |-> PyStr(<<"q">>)]>>

\* the textual content an LLM response can carry
Contents == {PyNone, PyStr(<<"h", "i">>)}

RunInit ==
    /\ messages = InitialMessages
    /\ iteration = 0
    /\ tool_calls = <<>>
    /\ tc_idx = 0
    /\ pc = "loop"
    /\ llm_requests = 0
    /\ executed = <<>>
    /\ collaborator_calls = <<>>
    /\ calls_listed = 0
    /\ facts_outcome = [k |-> "unasked"]
    /\ result = [k |-> "running"]

\* the responses the LLM stub can give in a round: a content and a list of
\* tool calls, possibly empty, with ids that are fresh in the run
Responses ==
    {[content |-> c, tool_calls |-> <<>>] : c \in Contents}
    \cup UNION {
        {[content |-> PyNone,
          tool_calls |-> [i \in 1..n |->
              [id |-> <<iteration + 1, i>>, function |-> functions[i]]]]
            : functions \in [1..n -> ToolCallPool]}
        : n \in 1..Min(MaxCalls, MaxTotalCalls - calls_listed)}

\* while iteration < self.__max_iterations
LoopCondition_Inclusive == iteration <= max_iterations

LoopCondition == iteration < max_iterations

\* if response_message.tool_calls
HasToolCalls_Always(response_message) == TRUE

HasToolCalls(response_message) == response_message.tool_calls # <<>>

\* the assistant message that records the response's tool calls
AssistantCallsMessage_Reversed(response_message) ==
    [role |-> "assistant",
     content |-> response_message.content,
     tool_calls |-> [i \in 1..Len(response_message.tool_calls) |->
         [id |-> response_message.tool_calls[
                     Len(response_message.tool_calls) + 1 - i].id,
          type |-> "function",
          function |-> response_message.tool_calls[
                           Len(response_message.tool_calls) + 1 - i].function]]]

AssistantCallsMessage(response_message) ==
    [role |-> "assistant",
     content |-> response_message.content,
     tool_calls |-> [i \in 1..Len(response_message.tool_calls) |->
         [id |-> response_message.tool_calls[i].id,
          type |-> "function",
          function |-> response_message.tool_calls[i].function]]]

\* messages.append(message)
AppendMessage_Prepend(msgs, message) == <<message>> \o msgs

AppendMessage(msgs, message) == Append(msgs, message)

\* the assistant message that carries the text run returns
FinalMessage_NoContent(final_content) == [role |-> "assistant", content |-> PyNone]

FinalMessage(final_content) == [role |-> "assistant", content |-> final_content]

\* the tool-result message of an executed invocation
ToolResultMessage_FirstId(tool_call, tool_response) ==
    [role |-> "tool",
     tool_call_id |-> <<tool_call.id[1], 1>>,
     name |-> tool_call.function.name,
     content |-> tool_response]

ToolResultMessage(tool_call, tool_response) ==
    [role |-> "tool",
     tool_call_id |-> tool_call.id,
     name |-> tool_call.function.name,
     content |-> tool_response]

\* if tool_call.function.name == "get_location_info"
EndsRun_Never(tool_call) == FALSE

EndsRun(tool_call) == tool_call.function.name = "get_location_info"

\* One pass of the while loop up to the for loop, for a response that lists
\* tool calls: the request, and the assistant message recording the calls.
RequestToolCalls ==
    /\ pc = "loop"
    /\ LoopCondition
    /\ \E response_message \in Responses :
         /\ HasToolCalls(response_message)
         /\ messages' = AppendMessage(messages,
                                      AssistantCallsMessage(response_message))
         /\ tool_calls' = response_message.tool_calls
         /\ calls_listed' = calls_listed + Len(response_message.tool_calls)
         /\ pc' = IF response_message.tool_calls = <<>> THEN "loop" ELSE "dispatch"
    /\ iteration' = iteration + 1
    /\ llm_requests' = llm_requests + 1
    /\ tc_idx' = 1
    /\ UNCHANGED <<executed, collaborator_calls, result, facts_outcome>>

\* One pass of the while loop for a response without tool calls: its content
\* is appended and returned.
RequestFinal ==
    /\ pc = "loop"
    /\ LoopCondition
    /\ \E response_message \in Responses :
         /\ ~HasToolCalls(response_message)
         /\ LET final_content == response_message.content
            IN  /\ messages' = AppendMessage(messages, FinalMessage(final_content))
                /\ result' = [k |-> "return", value |-> final_content]
         /\ tool_calls' = response_message.tool_calls
    /\ iteration' = iteration + 1
    /\ llm_requests' = llm_requests + 1
    /\ tc_idx' = 1
    /\ pc' = "returned"
    /\ UNCHANGED <<executed, collaborator_calls, calls_listed, facts_outcome>>

\* One pass of the for loop: the tool is executed and its result appended;
\* a get_location_info result is summarized and ends the run.
Dispatch ==
    /\ pc = "dispatch"
    /\ LET tool_call == tool_calls[tc_idx]
       IN  \E ext \in External(tool_call.function) :
             LET done == ExecuteTool(tool_call.function, ext)
                 answered == AppendMessage(messages,
                                          ToolResultMessage(tool_call, done.value))
                 summary == SummarizeLocationFacts(done.value)
             IN  /\ executed' = Append(executed, tool_call.id)
                 /\ collaborator_calls' = collaborator_calls \o done.called
                 /\ facts_outcome' =
                        IF /\ tool_call.function.name = "get_location_info"
                           /\ ParsedArguments(tool_call.function).t = "dict"
                        THEN ResolveFor(DictGet(ParsedArguments(tool_call.function),
                                                "name", PyNone), ext)
                        ELSE facts_outcome
                 /\ IF done.raised THEN
                        /\ messages' = messages
                        /\ pc' = "raised"
                        /\ result' = [k |-> "error", type |-> done.type]
                        /\ tc_idx' = tc_idx
                    ELSE IF EndsRun(tool_call) THEN
                        IF summary.raised THEN
                            /\ messages' = answered
                            /\ pc' = "raised"
                            /\ result' = [k |-> "error", type |-> summary.type]
                            /\ tc_idx' = tc_idx
                        ELSE
                            /\ messages' = AppendMessage(answered,
                                                         FinalMessage(summary.value))
                            /\ pc' = "returned"
                            /\ result' = [k |-> "return", value |-> summary.value]
                            /\ tc_idx' = tc_idx
                    ELSE
                        /\ messages' = answered
                        /\ result' = result
                        /\ IF tc_idx < Len(tool_calls)
                           THEN tc_idx' = tc_idx + 1 /\ pc' = "dispatch"
                           ELSE tc_idx' = tc_idx /\ pc' = "loop"
    /\ UNCHANGED <<iteration, tool_calls, llm_requests, calls_listed>>

\* The while condition fails: run raises "Max iterations reached".
IterationLimit ==
    /\ pc = "loop"
    /\ ~LoopCondition
    /\ pc' = "raised"
    /\ result' = [k |-> "error", type |-> "MaxIterations"]
    /\ UNCHANGED <<messages, iteration, tool_calls, tc_idx,
                   llm_requests, executed, collaborator_calls, calls_listed,
                   facts_outcome>>

\* no facts lookup is modelled step by step
ResolverIdle ==
    /\ r_name = <<>>
    /\ has_article = {}
    /\ results = <<>>
    /\ cand_idx = 0
    /\ res_idx = 0
    /\ best_page = [k |-> "none"]
    /\ best_score = -1
    /\ r_pc = "idle"
    /\ search_calls = 0
    /\ direct_errors = {}
    /\ r_result = [k |-> "pending"]
    /\ r_payload = PyNone
    /\ r_summary = PyNone

\* no method is applied on its own
FnIdle ==
    /\ fn_input = PyNone
    /\ fn_output = PyNone
    /\ fn_pc = "idle"

Init == RunInit /\ ResolverIdle /\ FnIdle

Next ==
    \/ RequestToolCalls /\ UNCHANGED <<resolverVars, fnVars>>
    \/ RequestFinal /\ UNCHANGED <<resolverVars, fnVars>>
    \/ Dispatch /\ UNCHANGED <<resolverVars, fnVars>>
    \/ IterationLimit /\ UNCHANGED <<resolverVars, fnVars>>

Spec == Init /\ [][Next]_vars

----------------------------------------------------------------------------
(* Agent.__resolve_city_page, step by step, inside a facts lookup *)

\* the characters of the requested names
NameChars == {"a", "a^", " "}

\* the requested names
Names == UNION {[1..n -> NameChars] : n \in 0..MaxNameLen}

\* raw = name.strip()
Raw(name) == Strip(name)

\* ascii_name = unidecode(raw)
AsciiName(name) == Unidecode(Raw(name))

\* the surface-form variants, first occurrences only, in the order tried
Candidates_TitleCasedFirst(name) ==
    Dedup(<<Title(Raw(name)), Raw(name), Title(AsciiName(name)), AsciiName(name),
            Hyphenate(Raw(name)), Hyphenate(AsciiName(name))>>)

Candidates(name) ==
    Dedup(<<Raw(name), Title(Raw(name)), AsciiName(name), Title(AsciiName(name)),
            Hyphenate(Raw(name)), Hyphenate(AsciiName(name))>>)

\* the article wikipedia.page(title, auto_suggest=False) returns for a title
\* that has one
ArticleOf(title) ==
    [title |-> title, url |-> <<"w", "/">> \o title,
     content |-> PyStr(title \o <<" ", "i", "s", "\n", "\n", "x">>),
     categories |-> PyList(<<>>)]

\* the errors an article lookup can raise
LookupErrors == {"DisambiguationError", "PageError", "Exception"}

\* the articles the autocorrected lookup of a search result can return
PagePool ==
    {[title |-> <<"A">>, url |-> <<"1">>, content |-> PyStr(<<"x">>),
      categories |-> PyList(<<>>)],
     [title |-> <<"A">>, url |-> <<"2">>, content |-> PyStr(<<"x">>),
      categories |-> [t |-> "raise", exc |-> [type |-> "Exception", details |-> <<"e">>]]],
     [title |-> <<"a", " ", "C", "i", "t", "y">>, url |-> <<"3">>, content |-> PyStr(<<"x">>),
      categories |-> PyList(<<<<"C", "i", "t", "i", "e", "s", " ", "b">>>>)],
     [title |-> <<"B">>, url |-> <<"4">>, content |-> PyStr(<<"x">>),
      categories |-> PyList(<<<<"b">>, LitPopulatedPlaces>>)],
     [title |-> <<"B">>, url |-> <<"5">>, content |-> PyStr(<<"x">>),
      categories |-> PyList(<<<<"b">>>>)],
     [title |-> <<"B">>, url |-> <<"6">>, content |-> PyStr(<<"x">>),
      categories |-> [t |-> "raise", exc |-> [type |-> "Exception", details |-> <<"e">>]]],
     [title |-> <<"a^", " ", "C", "i", "t", "y">>, url |-> <<"7">>, content |-> PyStr(<<"x">>),
      categories |-> PyList(<<<<"C", "i", "t", "i", "e", "s", " ", "b">>>>)]}

\* what the autocorrected lookup of one search result does
EntryPool ==
    {[k |-> "page", page |-> p] : p \in PagePool}
    \cup {[k |-> "raise", exc |-> [type |-> "DisambiguationError",
                                   options |-> [i \in 1..11 |-> PyStr(<<"o">>)]]],
          [k |-> "raise", exc |-> [type |-> "PageError"]]}

Unfetchable == [k |-> "raise", exc |-> [type |-> "PageError"]]

\* the result lists of the full-text search: up to MaxLive results, after
\* none, SearchCap - 1 or SearchCap results that cannot be fetched
SearchResultLists ==
    UNION {{Fill(pad, Unfetchable) \o live : pad \in {0, SearchCap - 1, SearchCap}}
           : live \in UNION {[1..n -> EntryPool] : n \in 0..MaxLive}}

\* what wikipedia.search does
SearchOutcomes ==
    {[k |-> "results", results |-> rs] : rs \in SearchResultLists}
    \cup {[k |-> "raise", exc |-> [type |-> "Exception", details |-> <<"e">>]]}

\* results[:10]
SearchSlice(rs) == Take(rs, SearchCap)

\* score = 0
ScoreStart == 0

\* the bonuses of the scoring
SubstringBonus == 40

CityBonus == 15

CategoryBonus == 25

ExactBonus_AsSubstring == SubstringBonus

ExactBonus == 100

\* best_score = -1
BestScoreStart_AsScore == ScoreStart

BestScoreStart == -1

\* the score of a fetched candidate
Score(page, raw, ascii_name) ==
    LET title_lower == Lower(page.title)
    IN  ScoreStart
        + (IF title_lower = Lower(raw) \/ title_lower = Lower(ascii_name)
           THEN ExactBonus ELSE 0)
        + (IF Contains(title_lower, Lower(raw)) THEN SubstringBonus ELSE 0)
        + (IF Contains(title_lower, LitCity) THEN CityBonus ELSE 0)
        + (IF /\ page.categories.t = "list"
              /\ \E i \in 1..Len(page.categories.l) :
                    \/ Contains(Lower(page.categories.l[i]), LitCities)
                    \/ Contains(Lower(page.categories.l[i]), LitPopulatedPlaces)
           THEN CategoryBonus ELSE 0)

\* if score > best_score
Better_OrEqual(score, best) == score >= best

Better(score, best) == score > best

ResolverInit ==
    /\ r_name \in Names
    /\ has_article \in SUBSET Range(Candidates(r_name))
    /\ results = <<>>
    /\ cand_idx = 1
    /\ res_idx = 0
    /\ best_page = [k |-> "none"]
    /\ best_score = BestScoreStart
    /\ r_pc = "direct"
    /\ search_calls = 0
    /\ direct_errors = {}
    /\ r_result = [k |-> "pending"]
    /\ r_payload = PyNone
    /\ r_summary = PyNone

\* One pass of the loop over the variants: the exact lookup of a variant
\* returns its article, or raises and the next variant is tried.
DirectLookup ==
    /\ r_pc = "direct"
    /\ LET cand == Candidates(r_name)[cand_idx]
       IN  IF cand \in has_article THEN
               /\ r_result' = [k |-> "page", page |-> ArticleOf(cand)]
               /\ r_pc' = "resolved"
               /\ UNCHANGED <<cand_idx, direct_errors>>
           ELSE
               /\ \E err \in LookupErrors :
                    direct_errors' = IF cand_idx < Len(Candidates(r_name))
                                     THEN direct_errors \cup {err} ELSE {}
               /\ IF cand_idx < Len(Candidates(r_name))
                  THEN cand_idx' = cand_idx + 1 /\ r_pc' = "direct"
                  ELSE cand_idx' = cand_idx /\ r_pc' = "search"
               /\ UNCHANGED r_result
    /\ UNCHANGED <<r_name, has_article, results, res_idx, best_page, best_score,
                   search_calls, r_payload, r_summary>>

\* The full-text search for the transliterated name: it raises, or returns
\* no result (None is returned), or returns the results the scoring loop
\* then goes through.
Search ==
    /\ r_pc = "search"
    /\ search_calls' = search_calls + 1
    /\ \E out \in SearchOutcomes :
         IF out.k = "raise" THEN
             /\ r_result' = out
             /\ r_pc' = "resolved"
             /\ UNCHANGED <<results, res_idx>>
         ELSE IF out.results = <<>> THEN
             /\ r_result' = [k |-> "none"]
             /\ r_pc' = "resolved"
             /\ UNCHANGED <<results, res_idx>>
         ELSE
             /\ results' = out.results
             /\ res_idx' = 1
             /\ r_pc' = "score"
             /\ UNCHANGED r_result
    /\ best_page' = [k |-> "none"]
    /\ best_score' = BestScoreStart
    /\ UNCHANGED <<r_name, has_article, cand_idx, direct_errors, r_payload, r_summary>>

\* One pass of the loop over the first 10 search results: the autocorrected
\* lookup raises and the result is skipped, or the candidate is scored and
\* kept when it beats the best so far; after the last pass the best
\* candidate is returned.
ScoreCandidate ==
    /\ r_pc = "score"
    /\ LET r == SearchSlice(results)[res_idx]
           score == Score(r.page, Raw(r_name), AsciiName(r_name))
           kept == r.k = "page" /\ Better(score, best_score)
           new_page == IF kept THEN [k |-> "page", page |-> r.page] ELSE best_page
       IN  /\ best_page' = new_page
           /\ best_score' = IF kept THEN score ELSE best_score
           /\ IF res_idx < Len(SearchSlice(results))
              THEN /\ res_idx' = res_idx + 1
                   /\ r_pc' = "score"
                   /\ UNCHANGED r_result
              ELSE /\ res_idx' = res_idx
                   /\ r_pc' = "resolved"
                   /\ r_result' = new_page
    /\ UNCHANGED <<r_name, has_article, results, cand_idx, search_calls,
                   direct_errors, r_payload, r_summary>>

\* __integrations_get_location_facts builds the transport string from what
\* the resolver did, and run summarizes it.
Facts ==
    /\ r_pc = "resolved"
    /\ r_payload' = GetLocationFacts(PyStr(r_name), r_result)
    /\ r_summary' = SummarizeLocationFacts(GetLocationFacts(PyStr(r_name), r_result))
    /\ r_pc' = "done"
    /\ UNCHANGED <<r_name, has_article, results, cand_idx, res_idx, best_page,
                   best_score, search_calls, direct_errors, r_result>>

\* the run loop does not move while a facts lookup is modelled on its own
RunIdle ==
    /\ messages = <<>>
    /\ iteration = 0
    /\ tool_calls = <<>>
    /\ tc_idx = 0
    /\ pc = "idle"
    /\ llm_requests = 0
    /\ executed = <<>>
    /\ collaborator_calls = <<>>
    /\ calls_listed = 0
    /\ facts_outcome = [k |-> "unasked"]
    /\ result = [k |-> "running"]

InitResolver == RunIdle /\ ResolverInit /\ FnIdle

NextResolver ==
    \/ DirectLookup /\ UNCHANGED <<runVars, fnVars>>
    \/ Search /\ UNCHANGED <<runVars, fnVars>>
    \/ ScoreCandidate /\ UNCHANGED <<runVars, fnVars>>
    \/ Facts /\ UNCHANGED <<runVars, fnVars>>

SpecResolver == InitResolver /\ [][NextResolver]_vars

----------------------------------------------------------------------------
(* __integrations_get_location_facts applied to the body of a found article *)

\* the lengths of the article bodies
BodyLengths ==
    {0, 1, ExcerptLimit - 1, ExcerptLimit, ExcerptLimit + 1, ExcerptLimit + 2,
     2 * ExcerptLimit}

\* the places of a body where a space can stand
SpacePlaces == {1, 2, 250, ExcerptLimit - 1, ExcerptLimit, ExcerptLimit + 1}

\* the places of a body where a paragraph break can start
BreakPlaces == {3, ExcerptLimit + 1}

\* the article bodies: runs of "x" with spaces at some of the places and at
\* most one paragraph break
ArticleBodies ==
    {[i \in 1..n |->
         IF i \in breaks \/ (i - 1) \in breaks THEN "\n"
         ELSE IF i \in spaces THEN " " ELSE "x"]
       : n \in BodyLengths, spaces \in SUBSET SpacePlaces,
         breaks \in {{}} \cup {{b} : b \in BreakPlaces}}

\* the article found for the requested name, with a given body
FoundPage(body) ==
    [title |-> <<"A">>, url |-> <<"u">>, content |-> PyStr(body),
     categories |-> PyList(<<>>)]

InitExcerpt ==
    /\ RunIdle
    /\ ResolverIdle
    /\ fn_input \in {PyStr(body) : body \in ArticleBodies}
    /\ fn_output = PyNone
    /\ fn_pc = "ready"

\* the facts lookup of a name whose article has the body fn_input
FactsOfFoundPage ==
    /\ fn_pc = "ready"
    /\ fn_output' = GetLocationFacts(PyStr(<<"a">>),
                                      [k |-> "page", page |-> FoundPage(fn_input.s)])
    /\ fn_pc' = "done"
    /\ UNCHANGED <<fn_input, runVars, resolverVars>>

NextExcerpt == FactsOfFoundPage

SpecExcerpt == InitExcerpt /\ [][NextExcerpt]_vars

----------------------------------------------------------------------------
(* __summarize_location_facts applied to a string *)

\* the lengths of the fields of a transport string
FieldLengths == {0, 1, SummaryLimit \div 2, SummaryLimit}

\* the numbers of options of a disambiguation
OptionCounts == {0, 1, SummaryOptions, SummaryOptions + 1, PayloadOptions}

Text(n) == PyStr(Fill(n, "x"))

\* the strings handed to the summarizer: the transport strings of the four
\* kinds of result, the empty string, text that is not JSON, and JSON text
\* that is not an object
SummaryInputs ==
    {JsonDumps(PyDict([requested |-> Text(1), resolved_title |-> Text(a),
                       url |-> Text(b), excerpt |-> Text(c)]))
        : a \in FieldLengths, b \in FieldLengths, c \in FieldLengths}
    \cup {JsonDumps(PyDict([error |-> PyStr(LitNotFound), requested |-> Text(a)]))
        : a \in FieldLengths}
    \cup {JsonDumps(PyDict([error |-> PyStr(LitDisambiguation), requested |-> Text(1),
                            options |-> PyList([i \in 1..n |-> Text(a)])]))
        : n \in OptionCounts, a \in FieldLengths}
    \cup {JsonDumps(PyDict([error |-> PyStr(LitGeneral), requested |-> Text(1),
                            details |-> Text(a)]))
        : a \in FieldLengths}
    \cup {Text(n) : n \in {0, 1, OpaqueLimit, OpaqueLimit + 1, 2 * OpaqueLimit}}
    \cup {PyJson(PyList(<<>>)), PyJson(PyList(<<Text(1)>>)), PyJson(PyInt(5)),
          PyJson(PyNone), PyJson(Text(1))}

InitSummarize ==
    /\ RunIdle
    /\ ResolverIdle
    /\ fn_input \in SummaryInputs
    /\ fn_output = PyNone
    /\ fn_pc = "ready"

\* the summarizer applied to fn_input
Summarize ==
    /\ fn_pc = "ready"
    /\ fn_output' = SummarizeLocationFacts(fn_input)
    /\ fn_pc' = "done"
    /\ UNCHANGED <<fn_input, runVars, resolverVars>>

NextSummarize == Summarize

SpecSummarize == InitSummarize /\ [][NextSummarize]_vars

----------------------------------------------------------------------------
(* Observations of a run used by the properties *)

Ended == pc \in {"returned", "raised"}

LimitError == [k |-> "error", type |-> "MaxIterations"]

RECURSIVE CallsIn(_)
\* the invocations recorded in the assistant messages, in transcript order
CallsIn(msgs) ==
    IF msgs = <<>> THEN <<>>
    ELSE (IF "tool_calls" \in DOMAIN Head(msgs) THEN Head(msgs).tool_calls ELSE <<>>)
         \o CallsIn(Tail(msgs))

ListedCalls == CallsIn(messages)

ListedIds == [i \in 1..Len(ListedCalls) |-> ListedCalls[i].id]

IsToolResult(m) == m.role = "tool"

ResultMessages == SelectSeq(messages, IsToolResult)

ResultIds == [i \in 1..Len(ResultMessages) |-> ResultMessages[i].tool_call_id]

HasResult(id) == id \in Range(ResultIds)

\* the recorded invocation that carries an id
CallOf(id) == CHOOSE c \in Range(ListedCalls) : c.id = id

IsFactsCall(id) == CallOf(id).function.name = "get_location_info"

HasMappingBag(id) == ParsedArguments(CallOf(id).function).t = "dict"

\* the rounds whose response listed tool calls
CallRounds == {ListedIds[i][1] : i \in 1..Len(ListedIds)}

\* the run failed because the execution of a tool raised
ToolRaised == pc = "raised" /\ result # LimitError

----------------------------------------------------------------------------
(* C1 *)

\* C1 as claimed: run sends at most 5 LLM requests and ends in one of two
\* ways only: it returns a text in one of rounds 1..5, or it fails with the
\* iteration-limit error right after the 5th round.
C1_TwoOutcomes ==
    /\ llm_requests <= max_iterations
    /\ Ended =>
          \/ result.k = "return" /\ llm_requests \in 1..max_iterations
          \/ result = LimitError /\ llm_requests = max_iterations

\* C1, amended: run sends at most 5 LLM requests and ends in one of three
\* ways: it returns in one of rounds 1..5; or the execution of a tool raises
\* in one of rounds 1..5 and run fails with that error in that round; or all
\* 5 rounds listed tool calls without ending the run and it fails with the
\* iteration-limit error right after the 5th round.  Once run has ended no
\* further step (no 6th request, no retry) is taken.
C1_AtMostFiveRequests ==
    /\ [](/\ llm_requests <= max_iterations
          /\ llm_requests = iteration
          /\ Ended =>
                \/ result.k = "return" /\ llm_requests \in 1..max_iterations
                \/ /\ ToolRaised
                   /\ llm_requests \in 1..max_iterations
                   /\ executed # <<>>
                   /\ executed[Len(executed)][1] = llm_requests
                \/ /\ result = LimitError
                   /\ llm_requests = max_iterations
                   /\ CallRounds = 1..max_iterations
                   /\ ResultIds = ListedIds)
    /\ [][~Ended]_vars

\* a run that used all 5 rounds and failed with the iteration-limit error
C1_Witness == pc = "raised" /\ result = LimitError /\ llm_requests = max_iterations

----------------------------------------------------------------------------
(* C2 *)

\* what C2 says of the executed invocation number i when it is a
\* get_location_info invocation
FactsCallEndsRun(i) ==
    LET n == Len(messages)
    IN  /\ pc = "returned"
        /\ i = Len(executed)
        /\ n >= 2
        /\ messages[n - 1].role = "tool"
        /\ messages[n - 1].tool_call_id = executed[i]
        /\ messages[n - 1].name = "get_location_info"
        /\ ~SummarizeLocationFacts(messages[n - 1].content).raised
        /\ messages[n] = [role |-> "assistant",
                          content |-> SummarizeLocationFacts(messages[n - 1].content).value]
        /\ result = [k |-> "return", value |-> messages[n].content]
        /\ llm_requests = executed[i][1]
        /\ tool_calls[tc_idx].id = executed[i]
        /\ \A j \in (tc_idx + 1)..Len(tool_calls) :
              tool_calls[j].id \notin Range(executed)

\* C2 as claimed: whenever a get_location_info invocation is dispatched, the
\* run ends in that round: its tool-result is appended, the summary of the
\* result is the last (assistant) message and the value returned, no later
\* invocation of the round is executed and no further LLM request is made.
C2_EveryFactsCallEndsRun ==
    \A i \in 1..Len(executed) : IsFactsCall(executed[i]) => FactsCallEndsRun(i)

\* C2, amended: the same, for every dispatched get_location_info invocation
\* whose argument bag is a mapping.
C2_FactsCallWithMappingEndsRun ==
    \A i \in 1..Len(executed) :
        (IsFactsCall(executed[i]) /\ HasMappingBag(executed[i])) => FactsCallEndsRun(i)

\* a run ended by a get_location_info invocation that was followed, in its
\* round, by another invocation
C2_Witness ==
    /\ pc = "returned"
    /\ executed # <<>>
    /\ IsFactsCall(executed[Len(executed)])
    /\ HasMappingBag(executed[Len(executed)])
    /\ tc_idx < Len(tool_calls)

----------------------------------------------------------------------------
(* C3 *)

\* C3 as claimed, of the transcript of a run that returned: the ids of the
\* tool-result messages are the ids recorded in the assistant messages, each
\* once and in the order requested.
C3_OneResultPerListedId == pc = "returned" => ResultIds = ListedIds

\* C3, amended: an id recorded in an assistant message has at most one
\* tool-result message, and exactly one when its invocation was executed
\* without raising; the tool-result messages are in the order the
\* invocations were requested; the recorded invocations without a result are
\* those of the current round that are not executed yet, that raised, or that
\* follow the get_location_info invocation that ended the run.
C3_OneResultPerExecutedId ==
    /\ \A i, j \in 1..Len(ResultIds) : ResultIds[i] = ResultIds[j] => i = j
    /\ ResultIds = SelectSeq(ListedIds, HasResult)
    /\ ResultIds = IF ToolRaised THEN SubSeq(executed, 1, Len(executed) - 1)
                   ELSE executed
    /\ \A i \in 1..Len(ListedIds) :
          ~HasResult(ListedIds[i]) =>
              /\ ListedIds[i][1] = iteration
              /\ ListedIds[i][2] >= tc_idx
              /\ pc = "returned" =>
                    /\ ListedIds[i][2] > tc_idx
                    /\ tool_calls[tc_idx].function.name = "get_location_info"

\* a returned run whose last round listed an invocation after the
\* get_location_info invocation, and that had executed tools before
C3_Witness ==
    /\ pc = "returned"
    /\ Len(ResultIds) >= 2
    /\ Len(ResultIds) < Len(ListedIds)

----------------------------------------------------------------------------
(* C4 *)

\* every response so far listed no tool call and carried no text
OnlyEmptyResponses ==
    /\ llm_requests >= 1
    /\ executed = <<>>
    /\ \A i \in (Len(InitialMessages) + 1)..Len(messages) :
          /\ messages[i].role = "assistant"
          /\ "tool_calls" \notin DOMAIN messages[i]
          /\ messages[i].content = PyNone

\* C4 as claimed: with a stub whose every response lists no tool call and
\* carries no text, run fails with the iteration-limit error after exactly 5
\* LLM requests.
C4_EmptyStubHitsLimit ==
    (Ended /\ OnlyEmptyResponses) => (result = LimitError /\ llm_requests = max_iterations)

\* C4, amended: a response that lists no tool call ends the run in its round
\* with the response's content as the returned value, so with a stub whose
\* every response lists no tool call and carries no text run returns that
\* empty content after exactly 1 LLM request; the iteration-limit error comes
\* after exactly 5 LLM requests and only when each of the 5 responses listed
\* at least one tool call.
C4_EmptyResponseReturnsAtOnce ==
    /\ (llm_requests >= 1 /\ tool_calls = <<>>) =>
          /\ pc = "returned"
          /\ messages[Len(messages)] = [role |-> "assistant", content |-> result.value]
          /\ result.k = "return"
    /\ OnlyEmptyResponses =>
          /\ pc = "returned"
          /\ llm_requests = 1
          /\ result = [k |-> "return", value |-> PyNone]
    /\ result = LimitError =>
          /\ llm_requests = max_iterations
          /\ CallRounds = 1..max_iterations

\* the run of the stub of C4 after its first response
C4_Witness == OnlyEmptyResponses /\ pc = "returned" /\ result.value = PyNone

----------------------------------------------------------------------------
(* C10 *)

\* C10: the execution of an invocation whose tool name is not in the catalog
\* calls no collaborator, appends the 'not available' notice as the
\* tool-result message of the invocation's id, and does not end the run: the
\* for loop goes on with the next invocation of the round, or the while loop
\* with its next pass when it was the last one.
C10_UnknownToolNotice ==
    [][(pc = "dispatch" /\ tool_calls[tc_idx].function.name \notin ToolNames) =>
          LET tool_call == tool_calls[tc_idx]
          IN  /\ messages' = Append(messages,
                     [role |-> "tool",
                      tool_call_id |-> tool_call.id,
                      name |-> tool_call.function.name,
                      content |-> PyStr(LitToolOpen \o <<tool_call.function.name>>
                                        \o LitNotAvailable)])
              /\ collaborator_calls' = collaborator_calls
              /\ result' = [k |-> "running"]
              /\ IF tc_idx < Len(tool_calls)
                 THEN pc' = "dispatch" /\ tc_idx' = tc_idx + 1
                 ELSE pc' = "loop"]_vars

\* a notice was given for an unknown tool, a later invocation of its round
\* was executed and a later LLM request was sent
C10_Witness ==
    \E i \in 1..Len(ResultMessages) :
        /\ ResultMessages[i].name \notin ToolNames
        /\ ResultMessages[i].tool_call_id[1] < llm_requests
        /\ \E j \in (i + 1)..Len(ResultMessages) :
              ResultMessages[j].tool_call_id[1] = ResultMessages[i].tool_call_id[1]

----------------------------------------------------------------------------
(* C5 *)

\* the six surface forms of a name in the order C5 gives them
SurfaceForms(name) ==
    <<Strip(name), Title(Strip(name)), Unidecode(Strip(name)),
      Title(Unidecode(Strip(name))), Hyphenate(Strip(name)),
      Hyphenate(Unidecode(Strip(name)))>>

\* the first surface form of the requested name that has an exact article
FirstFormWithArticle ==
    SurfaceForms(r_name)[MinOf({i \in 1..6 : SurfaceForms(r_name)[i] \in has_article})]

----------------------------------------------------------------------------
(* C6 *)

IsFetched(entry) == entry.k = "page"

\* the candidates fetched among the first 10 search results, in search order
Fetched == SelectSeq(Take(results, 10), IsFetched)

ScoreOfFetched(i) == Score(Fetched[i].page, Strip(r_name), Unidecode(Strip(r_name)))

TopScore == MaxOf({ScoreOfFetched(i) : i \in 1..Len(Fetched)})

FirstAtTop == MinOf({i \in 1..Len(Fetched) : ScoreOfFetched(i) = TopScore})

\* C6: the search-and-score pass returns the fetched candidate with the
\* maximum score, and of several candidates with the maximum score the one
\* that comes first in the search results.
C6_FirstMaximumWins ==
    (r_pc \in {"resolved", "done"} /\ search_calls = 1 /\ Fetched # <<>>) =>
        r_result = [k |-> "page", page |-> Fetched[FirstAtTop].page]

\* a pass over two different candidates with the same, maximum score
C6_Witness ==
    /\ r_pc = "done"
    /\ search_calls = 1
    /\ Len(Fetched) >= 2
    /\ \E i \in 2..Len(Fetched) :
          /\ ScoreOfFetched(i) = TopScore
          /\ i # FirstAtTop
          /\ Fetched[i].page # Fetched[FirstAtTop].page

----------------------------------------------------------------------------
(* C7 *)

\* C7 as claimed: the excerpt of a Found result is at most 500 characters
\* long, ellipsis included, and when the first paragraph is longer than 500
\* characters the excerpt is a prefix of it that ends where a word ends,
\* followed by the ellipsis.
C7_ExcerptWithinLimit ==
    fn_pc = "done" =>
        LET excerpt == fn_output.v.d.excerpt.s
            paragraph == Strip(FirstParagraph(fn_input.s))
        IN  /\ Len(excerpt) <= 500
            /\ Len(paragraph) > 500 =>
                  \E k \in 0..499 :
                      /\ excerpt = SubSeq(paragraph, 1, k) \o Ellipsis
                      /\ paragraph[k + 1] = " "

----------------------------------------------------------------------------
(* C8 *)

\* C8 as claimed: whatever string the summarizer is given, the text it
\* returns is at most 600 characters long.
C8_SummaryWithinLimit ==
    (fn_pc = "done" /\ ~fn_output.raised) => Len(fn_output.value.s) <= 600

----------------------------------------------------------------------------
(* C9 *)

IsDisambiguation(entry) ==
    entry.k = "raise" /\ entry.exc.type = "DisambiguationError"

\* C9 as claimed: when no variant has an exact article and the lookup of one
\* of the first 10 search results raises a disambiguation error, the
\* transport string is the disambiguation error with at most 10 options and
\* the summary lists at most 5 of them.
C9_SearchDisambiguationReported ==
    (/\ r_pc = "done"
     /\ search_calls = 1
     /\ \E i \in 1..Len(Take(results, 10)) : IsDisambiguation(results[i])) =>
        /\ r_payload.t = "json"
        /\ "error" \in DOMAIN r_payload.v.d
        /\ r_payload.v.d.error = PyStr(LitDisambiguation)
        /\ Len(r_payload.v.d.options.l) <= 10
        /\ r_summary = Returned(PyStr(LitMultiple
               \o Join(LitCommaSpace,
                       [i \in 1..Min(5, Len(r_payload.v.d.options.l)) |->
                           r_payload.v.d.options.l[i].s])
               \o LitPleaseSpecify))

----------------------------------------------------------------------------
(* C11 *)

\* C11: a step of run that receives a response without tool invocations, in
\* any of rounds 1..5, executes no tool and calls no collaborator, appends
\* the response's content as the last (assistant) message, and returns that
\* content; after run has returned no step is taken, so no further LLM
\* request is made.
C11_AnswerWithoutCallsReturned ==
    /\ [][(llm_requests' = llm_requests + 1 /\ tool_calls' = <<>>) =>
            /\ llm_requests' \in 1..max_iterations
            /\ executed' = executed
            /\ collaborator_calls' = collaborator_calls
            /\ pc' = "returned"
            /\ result'.k = "return"
            /\ result'.value \in Contents
            /\ messages' = Append(messages,
                   [role |-> "assistant", content |-> result'.value])]_vars
    /\ [][pc # "returned"]_vars

\* a textual answer returned in a later round, after tools were executed
C11_Witness ==
    /\ pc = "returned"
    /\ tool_calls = <<>>
    /\ llm_requests >= 2
    /\ executed # <<>>
    /\ result = [k |-> "return", value |-> PyStr(<<"h", "i">>)]
    /\ messages[Len(messages)] = [role |-> "assistant", content |-> PyStr(<<"h", "i">>)]

----------------------------------------------------------------------------
(* C12 *)

\* C12: every step of run, also the step that ends it with an error, leaves
\* the transcript it found as a prefix of the transcript it leaves.
C12_TranscriptAppendOnly ==
    [][/\ Len(messages') >= Len(messages)
       /\ SubSeq(messages', 1, Len(messages)) = messages]_vars

\* a run ended by the error of a tool after results were appended
C12_Witness ==
    /\ ToolRaised
    /\ Len(ResultMessages) >= 1
    /\ Len(messages) >= Len(InitialMessages) + 3

----------------------------------------------------------------------------
(* C13 *)

IsNotFound(payload) ==
    /\ "error" \in DOMAIN payload.v.d
    /\ payload.v.d.error = PyStr(LitNotFound)

IsFound(payload) == "error" \notin DOMAIN payload.v.d

\* C13: a lookup ends as NotFound only when every variant failed in the
\* direct pass and the search returned no result or none of its first 10
\* results could be fetched; when one of the first 10 results is fetched the
\* lookup ends as Found; and when every fetched candidate scores 0 the
\* winner is the first fetched one.
C13_NotFoundOnlyWhenExhausted ==
    r_pc = "done" =>
        /\ IsNotFound(r_payload) =>
              /\ has_article = {}
              /\ cand_idx = Len(Candidates(r_name))
              /\ search_calls = 1
              /\ r_result = [k |-> "none"]
              /\ Fetched = <<>>
        /\ (search_calls = 1 /\ Fetched # <<>>) =>
              /\ r_result.k = "page"
              /\ IsFound(r_payload)
              /\ r_payload.v.d.resolved_title = PyStr(r_result.page.title)
        /\ (/\ search_calls = 1
            /\ Fetched # <<>>
            /\ \A i \in 1..Len(Fetched) : ScoreOfFetched(i) = 0) =>
              r_result = [k |-> "page", page |-> Fetched[1].page]

\* two different candidates are fetched, both score 0, and the first of
\* them is found
C13_Witness ==
    /\ r_pc = "done"
    /\ search_calls = 1
    /\ Len(Fetched) >= 2
    /\ \A i \in 1..Len(Fetched) : ScoreOfFetched(i) = 0
    /\ Fetched[1].page # Fetched[2].page
    /\ r_result = [k |-> "page", page |-> Fetched[1].page]
    /\ IsFound(r_payload)

----------------------------------------------------------------------------
(* C15 *)

\* the title equals the raw or the transliterated name, whatever the case
ExactTitle(page) ==
    \/ Lower(page.title) = Lower(Strip(r_name))
    \/ Lower(page.title) = Lower(Unidecode(Strip(r_name)))

\* C15: when a candidate with the exact title is fetched among the first 10
\* search results, the winner has the exact title, and every fetched
\* candidate without the exact title scores less than the winner.
C15_ExactTitleWins ==
    (/\ r_pc \in {"resolved", "done"}
     /\ search_calls = 1
     /\ \E i \in 1..Len(Fetched) : ExactTitle(Fetched[i].page)) =>
        /\ r_result.k = "page"
        /\ ExactTitle(r_result.page)
        /\ \A i \in 1..Len(Fetched) :
              ~ExactTitle(Fetched[i].page) =>
                  ScoreOfFetched(i) <
                      Score(r_result.page, Strip(r_name), Unidecode(Strip(r_name)))

\* a candidate with the three other bonuses comes before the candidate with
\* the exact title only, which wins
C15_Witness ==
    /\ r_pc = "done"
    /\ search_calls = 1
    /\ \E i, j \in 1..Len(Fetched) :
          /\ i < j
          /\ ~ExactTitle(Fetched[i].page)
          /\ ScoreOfFetched(i) = SubstringBonus + CityBonus + CategoryBonus
          /\ ExactTitle(Fetched[j].page)
          /\ ScoreOfFetched(j) = ExactBonus
          /\ r_result = [k |-> "page", page |-> Fetched[j].page]

----------------------------------------------------------------------------
(* C14 *)

IsExecuted(id) == id \in Range(executed)

\* C14: the invocations of a round are dispatched one after the other in the
\* listed order.  A tool is executed only when the assistant message that
\* lists it is in the transcript and every invocation listed before it has
\* its result there; a request is sent to the LLM only when every listed
\* invocation has its result; the executed invocations are, in every round,
\* a prefix of the listed ones, executed in the listed order; and every
\* tool-result message carries the id and the tool name of its invocation.
C14_SequentialDispatch ==
    /\ [](LET listed == ListedCalls
              answers == ResultMessages
          IN  /\ executed = SelectSeq([i \in 1..Len(listed) |-> listed[i].id],
                                      IsExecuted)
              /\ \A i, j \in 1..Len(listed) :
                    (/\ i < j
                     /\ listed[i].id[1] = listed[j].id[1]
                     /\ IsExecuted(listed[j].id)) => IsExecuted(listed[i].id)
              /\ Len(answers) \in {Len(executed) - 1, Len(executed)}
              /\ \A k \in 1..Len(answers) :
                    /\ answers[k].tool_call_id = executed[k]
                    /\ \E i \in 1..Len(listed) :
                          /\ listed[i].id = executed[k]
                          /\ listed[i].function.name = answers[k].name)
    /\ [][executed' # executed =>
            LET listed == ListedCalls
                answered == Range(ResultIds)
            IN  \E k \in 1..Len(listed) :
                   /\ executed' = Append(executed, listed[k].id)
                   /\ listed[k].function = tool_calls[tc_idx].function
                   /\ \A i \in 1..(k - 1) : listed[i].id \in answered
                   /\ \A i \in k..Len(listed) : listed[i].id \notin answered]_vars
    /\ [][llm_requests' # llm_requests =>
            LET listed == ListedCalls
                answered == Range(ResultIds)
            IN  \A i \in 1..Len(listed) : listed[i].id \in answered]_vars

\* the second of two invocations of a later round is about to be executed,
\* after an earlier round whose two invocations were executed
C14_Witness ==
    /\ pc = "dispatch"
    /\ llm_requests >= 2
    /\ tc_idx = 2
    /\ Len(executed) >= 3
    /\ executed[1][1] = executed[2][1]
    /\ executed[3][1] = iteration
    /\ HasResult(executed[3])
    /\ ~IsExecuted(tool_calls[2].id)

----------------------------------------------------------------------------
(* C16 *)

\* the position in executed of the facts lookup with a well-formed bag
FactsLookups ==
    {k \in 1..Len(executed) : IsFactsCall(executed[k]) /\ HasMappingBag(executed[k])}

StartsWith(text, prefix) ==
    Len(text) >= Len(prefix) /\ SubSeq(text, 1, Len(prefix)) = prefix

\* C16: whatever the encyclopedia does in a facts lookup with a well-formed
\* argument bag (an article is found, none is found, the name is ambiguous,
\* or something else fails, which is reported as the general failure with
\* its details), the lookup yields a transport string, its tool-result
\* message is appended, and run returns the summary text of that outcome;
\* the run does not end with an error.
C16_EveryOutcomeSummarized ==
    \A k \in FactsLookups :
        LET payload == messages[Len(messages) - 1].content
            said == result.value.s
        IN  /\ k = Len(executed)
            /\ pc = "returned"
            /\ facts_outcome.k \in {"page", "none", "raise"}
            /\ messages[Len(messages) - 1].role = "tool"
            /\ messages[Len(messages) - 1].tool_call_id = executed[k]
            /\ payload.t = "json" /\ payload.v.t = "dict"
            /\ result.k = "return" /\ result.value.t = "str"
            /\ messages[Len(messages)] = [role |-> "assistant", content |-> result.value]
            /\ facts_outcome.k = "page" =>
                  /\ "error" \notin DOMAIN payload.v.d
                  /\ StartsWith(said, facts_outcome.page.title \o LitColon)
            /\ facts_outcome.k = "none" =>
                  /\ payload.v.d.error = PyStr(LitNotFound)
                  /\ StartsWith(said, LitCouldNotFind)
            /\ (facts_outcome.k = "raise"
                /\ facts_outcome.exc.type = "DisambiguationError") =>
                  /\ payload.v.d.error = PyStr(LitDisambiguation)
                  /\ StartsWith(said, LitMultiple)
            /\ (facts_outcome.k = "raise" /\ facts_outcome.exc.type = "PageError") =>
                  /\ payload.v.d.error = PyStr(LitNotFound)
                  /\ StartsWith(said, LitCouldNotFind)
            /\ (facts_outcome.k = "raise"
                /\ facts_outcome.exc.type \notin {"DisambiguationError", "PageError"}) =>
                  /\ payload.v.d.error = PyStr(LitGeneral)
                  /\ payload.v.d.details = PyStr(facts_outcome.exc.details)
                  /\ said = LitErrorFetching \o LitGeneral \o LitTryAgain

\* a lookup for a name in which the encyclopedia failed unexpectedly, after
\* another tool was executed: run returned the general-failure text
C16_Witness ==
    /\ pc = "returned"
    /\ Len(executed) >= 2
    /\ FactsLookups = {Len(executed)}
    /\ "name" \in DOMAIN ParsedArguments(CallOf(executed[Len(executed)]).function).d
    /\ facts_outcome.k = "raise"
    /\ facts_outcome.exc.type = "Exception"
    /\ result.value = PyStr(LitErrorFetching \o LitGeneral \o LitTryAgain)

----------------------------------------------------------------------------
(* C17 *)

\* the input is not the JSON text of an object
NotAnObject(content) ==
    content.t = "str" \/ (content.t = "json" /\ content.v.t # "dict")

\* C17 as claimed: for an input that is not a JSON object (text that is not
\* JSON, or the JSON text of a number, a string, a list or null) the
\* summarizer does not fail and returns a text, which for text that is not
\* JSON is the input cut to 500 characters.  The empty string, which has its
\* own sentence, is left out.
C17_OpaqueInputTolerated ==
    (fn_pc = "done" /\ NotAnObject(fn_input) /\ fn_input # PyStr(<<>>)) =>
        /\ ~fn_output.raised
        /\ fn_output.value.t = "str"
        /\ fn_input.t = "str" => fn_output.value = PyStr(Take(fn_input.s, 500))

----------------------------------------------------------------------------
(* C18 *)

NeedsMappingBag(id) ==
    CallOf(id).function.name \in {"get_location", "get_location_info"}

\* C18: when the execution of a tool raises (a collaborator fails, or the
\* argument bag of get_location or get_location_info is not a mapping) run
\* ends in that step with that error: the step appends nothing, so neither
\* the failing invocation nor a later one of the round gets a tool-result
\* message, while the round's assistant message and the results of the
\* earlier invocations stay in the transcript; no request is sent to the LLM
\* afterwards.
C18_ToolErrorEndsRun ==
    /\ [](\A k \in 1..Len(executed) :
            (NeedsMappingBag(executed[k]) /\ ~HasMappingBag(executed[k])) =>
                /\ k = Len(executed)
                /\ ToolRaised
                /\ result = [k |-> "error", type |-> "AttributeError"])
    /\ [](ToolRaised =>
            LET failing == executed[Len(executed)]
                listed == ListedIds
                answered == Range(ResultIds)
            IN  /\ result.type \in {"ConnectionError", "AttributeError"}
                /\ failing \in Range(listed)
                /\ failing[1] = llm_requests
                /\ failing \notin answered
                /\ \A i \in 1..Len(listed) :
                      listed[i] \in answered <=>
                          \E k \in 1..(Len(executed) - 1) : executed[k] = listed[i])
    /\ [][(pc = "dispatch" /\ pc' = "raised") =>
            /\ messages' = messages
            /\ llm_requests' = llm_requests
            /\ result'.k = "error"]_vars
    /\ [][pc # "raised"]_vars

\* in the second round the first of two listed invocations, a get_location
\* whose argument bag is not a mapping, raised; the result of the first
\* round is in the transcript
C18_Witness ==
    /\ ToolRaised
    /\ result.type = "AttributeError"
    /\ llm_requests = 2
    /\ Len(executed) >= 2
    /\ HasResult(executed[1])
    /\ CallOf(executed[Len(executed)]).function.name = "get_location"
    /\ executed[Len(executed)] = <<2, 1>>
    /\ <<2, 2>> \in Range(ListedIds)
    /\ ~HasResult(<<2, 2>>)

====
